---- MODULE Spec2Model ----
(***************************************************************************)
(* Model of the pointing-poker API: the SQLite persistence gateway         *)
(* (src/src/db.rs), the per-room channel registry (src/src/state.rs) and   *)
(* the request handlers (src/src/routes/room.rs, src/src/routes/vote.rs).  *)
(*                                                                         *)
(* Every Database method and every handler is a pure operator from the     *)
(* state it reads to the state it leaves and the value it returns; an      *)
(* action of the sequential specification Spec runs one handler from its   *)
(* first statement to its return.                                          *)
(***************************************************************************)
EXTENDS Integers, Sequences, FiniteSets, Bags, TLC

\* Number of Uuid::new_v4() values the model issues (RoomId and UserId both
\* wrap a Uuid, so they share one space and a request may name any of them).
MaxUuid == 4

Uuid == 1..MaxUuid

\* Option<T>: None and Some(x).
None == <<>>
Some(x) == <<x>>
unwrap(o) == o[1]

\* ------------------------------------------------------------------------
\* models/vote.rs
\* ------------------------------------------------------------------------
Vote == {"Zero", "One", "Two", "Three", "Five", "Eight", "Thirteen",
         "TwentyOne", "QuestionMark", "Coffee", "Hidden"}

\* Vote::value
value(v) ==
    CASE v = "Zero" -> Some("0")
      [] v = "One" -> Some("1")
      [] v = "Two" -> Some("2")
      [] v = "Three" -> Some("3")
      [] v = "Five" -> Some("5")
      [] v = "Eight" -> Some("8")
      [] v = "Thirteen" -> Some("13")
      [] v = "TwentyOne" -> Some("21")
      [] v = "QuestionMark" -> Some("?")
      [] v = "Coffee" -> Some("coffee")
      [] v = "Hidden" -> None

\* str::to_lowercase on the strings the requests of this model carry.
to_lowercase(s) ==
    CASE s = "COFFEE" -> "coffee"
      [] s = "Coffee" -> "coffee"
      [] s = "cOfFeE" -> "coffee"
      [] s = "HIDDEN" -> "hidden"
      [] s = "Hidden" -> "hidden"
      [] s = "X" -> "x"
      [] s = "Five" -> "five"
      [] s = "ZERO" -> "zero"
      [] OTHER -> s

\* Result<T, E>
Ok(v) == [ok |-> TRUE, val |-> v]
Err(e) == [ok |-> FALSE, err |-> e]

\* Mutant of from_string: "hidden" parses to the Hidden token.
from_string_with_hidden(s) ==
    LET l == to_lowercase(s) IN
    CASE l = "0" -> Ok("Zero")
      [] l = "1" -> Ok("One")
      [] l = "2" -> Ok("Two")
      [] l = "3" -> Ok("Three")
      [] l = "5" -> Ok("Five")
      [] l = "8" -> Ok("Eight")
      [] l = "13" -> Ok("Thirteen")
      [] l = "21" -> Ok("TwentyOne")
      [] l = "?" -> Ok("QuestionMark")
      [] l = "coffee" -> Ok("Coffee")
      [] l = "hidden" -> Ok("Hidden")
      [] OTHER -> Err("Invalid vote value")

\* Vote::from_string
from_string(s) ==
    LET l == to_lowercase(s) IN
    CASE l = "0" -> Ok("Zero")
      [] l = "1" -> Ok("One")
      [] l = "2" -> Ok("Two")
      [] l = "3" -> Ok("Three")
      [] l = "5" -> Ok("Five")
      [] l = "8" -> Ok("Eight")
      [] l = "13" -> Ok("Thirteen")
      [] l = "21" -> Ok("TwentyOne")
      [] l = "?" -> Ok("QuestionMark")
      [] l = "coffee" -> Ok("Coffee")
      [] OTHER -> Err("Invalid vote value")

\* The vote strings the requests of the model carry.
VoteInputs == {"5", "COFFEE", "x"}

\* ------------------------------------------------------------------------
\* db.rs: the three tables. A database value d is a record
\*   rooms : room id -> [state, owner_id]     (rooms.id PRIMARY KEY)
\*   users : user id -> [room_id, name, is_observer]  (users.id PRIMARY KEY)
\*   votes : user id -> [room_id, vote]       (votes.user_id PRIMARY KEY)
\* each a function whose domain is the set of keys that have a row.
\* ------------------------------------------------------------------------
Put(f, k, v) == [x \in (DOMAIN f) \cup {k} |-> IF x = k THEN v ELSE f[x]]
Without(f, S) == [x \in (DOMAIN f) \ S |-> f[x]]

EmptyMap == [x \in {} |-> x]
EmptyDb == [rooms |-> EmptyMap, users |-> EmptyMap, votes |-> EmptyMap]

\* Result of a Database method: the database it leaves and Ok(v) / Err(e).
DbOk(d, v) == [db |-> d, ok |-> TRUE, val |-> v]
DbErr(d, e) == [db |-> d, ok |-> FALSE, err |-> e]

\* RoomState <-> TEXT column
state_str(state) == IF state = "Voting" THEN "voting" ELSE "revealed"

\* models/user.rs, User::new, with the UserId::new() it draws passed in.
User_new(name, is_observer, id) == [id |-> id, name |-> name, is_observer |-> is_observer]

\* Database::add_user: INSERT INTO users; users.id is the primary key and
\* users.room_id REFERENCES rooms (id).
db_add_user(d, user, room_id) ==
    IF user.id \in DOMAIN d.users \/ room_id \notin DOMAIN d.rooms
    THEN DbErr(d, "DatabaseError")
    ELSE DbOk([d EXCEPT !.users = Put(@, user.id,
                   [room_id |-> room_id, name |-> user.name,
                    is_observer |-> IF user.is_observer THEN 1 ELSE 0])], None)

\* Database::create_room, lines 111-123: INSERT INTO rooms; rooms.id is the
\* primary key.
db_insert_room(d, room) ==
    IF room.id \in DOMAIN d.rooms
    THEN DbErr(d, "DatabaseError")
    ELSE DbOk([d EXCEPT !.rooms = Put(@, room.id,
                   [state |-> state_str(room.state), owner_id |-> room.owner_id])], None)

\* Database::create_room: INSERT INTO rooms, then add_user for each initial
\* user (Room::new gives at most one).
db_create_room(d, room) ==
    LET r == db_insert_room(d, room) IN
    IF ~r.ok THEN r
    ELSE IF DOMAIN room.users = {}
    THEN r
    ELSE db_add_user(r.db, room.users[CHOOSE u \in DOMAIN room.users : TRUE], room.id)

\* Database::get_users_for_room: the keys of the map it returns.
db_get_users_for_room(d, room_id) ==
    {u \in DOMAIN d.users : d.users[u].room_id = room_id}

\* Database::get_votes_for_room: the stored strings parsed back to tokens.
db_get_votes_for_room(d, room_id) ==
    LET keys == {u \in DOMAIN d.votes : d.votes[u].room_id = room_id} IN
    IF \E u \in keys : ~from_string(d.votes[u].vote).ok
    THEN Err("DatabaseError")
    ELSE Ok([u \in keys |-> from_string(d.votes[u].vote).val])

\* Database::get_room
db_get_room(d, room_id) ==
    IF room_id \notin DOMAIN d.rooms
    THEN Ok(None)
    ELSE LET row == d.rooms[room_id]
             votes == db_get_votes_for_room(d, room_id)
         IN IF ~votes.ok THEN votes
            ELSE IF row.state \notin {"voting", "revealed"} THEN Err("DatabaseError")
            ELSE Ok(Some([id |-> room_id,
                          state |-> IF row.state = "voting" THEN "Voting" ELSE "Revealed",
                          users |-> db_get_users_for_room(d, room_id),
                          votes |-> votes.val,
                          owner_id |-> row.owner_id]))

\* Database::update_room_state
db_update_room_state(d, room_id, state) ==
    IF room_id \in DOMAIN d.rooms
    THEN [d EXCEPT !.rooms[room_id].state = state_str(state)]
    ELSE d

\* Database::update_room_owner
db_update_room_owner(d, room_id, owner_id) ==
    IF room_id \in DOMAIN d.rooms
    THEN [d EXCEPT !.rooms[room_id].owner_id = owner_id]
    ELSE d

\* Database::remove_vote
db_remove_vote(d, user_id) == [d EXCEPT !.votes = Without(@, {user_id})]

\* DELETE FROM users WHERE id = ?, with votes.user_id ON DELETE CASCADE.
delete_user_row(d, user_id) ==
    [d EXCEPT !.users = Without(@, {user_id}), !.votes = Without(@, {user_id})]

\* Database::remove_user
db_remove_user(d, user_id) ==
    IF user_id \notin DOMAIN d.users
    THEN DbOk(d, None)
    ELSE LET room_id == d.users[user_id].room_id
             d1 == delete_user_row(d, user_id)
             d2 == db_remove_vote(d1, user_id)
         IN DbOk(d2, Some([user |-> user_id, room_id |-> room_id]))

\* Database::count_users_in_room
db_count_users_in_room(d, room_id) == Cardinality(db_get_users_for_room(d, room_id))

\* Mutant of db_delete_room: votes.room_id without ON DELETE CASCADE, so that
\* only the room's users and the votes of those users go with the room.
db_delete_room_keeps_votes(d, room_id) ==
    IF room_id \notin DOMAIN d.rooms
    THEN DbOk(d, FALSE)
    ELSE LET gone == db_get_users_for_room(d, room_id)
         IN DbOk([rooms |-> Without(d.rooms, {room_id}),
                  users |-> Without(d.users, gone),
                  votes |-> Without(d.votes, gone)], TRUE)

\* Database::delete_room: DELETE FROM rooms WHERE id = ?, cascading to the
\* room's users (and their votes) and to the votes that name the room.
db_delete_room(d, room_id) ==
    IF room_id \notin DOMAIN d.rooms
    THEN DbOk(d, FALSE)
    ELSE LET gone == db_get_users_for_room(d, room_id)
             dead == {u \in DOMAIN d.votes : u \in gone \/ d.votes[u].room_id = room_id}
         IN DbOk([rooms |-> Without(d.rooms, {room_id}),
                  users |-> Without(d.users, gone),
                  votes |-> Without(d.votes, dead)], TRUE)

\* Mutant of upsert_vote: ON CONFLICT(user_id) DO NOTHING.
upsert_vote_do_nothing(d, room_id, user_id, vote_val) ==
    IF user_id \in DOMAIN d.votes
    THEN DbOk(d, None)
    ELSE IF user_id \notin DOMAIN d.users \/ room_id \notin DOMAIN d.rooms
    THEN DbErr(d, "DatabaseError")
    ELSE DbOk([d EXCEPT !.votes = Put(@, user_id, [room_id |-> room_id, vote |-> vote_val])],
              None)

\* The INSERT ... ON CONFLICT(user_id) DO UPDATE SET vote = excluded.vote of
\* add_vote: a row for the user keeps its room_id; a new row must satisfy
\* both foreign keys.
upsert_vote(d, room_id, user_id, vote_val) ==
    IF user_id \in DOMAIN d.votes
    THEN DbOk([d EXCEPT !.votes[user_id].vote = vote_val], None)
    ELSE IF user_id \notin DOMAIN d.users \/ room_id \notin DOMAIN d.rooms
    THEN DbErr(d, "DatabaseError")
    ELSE DbOk([d EXCEPT !.votes = Put(@, user_id, [room_id |-> room_id, vote |-> vote_val])],
              None)

\* Mutant of db_add_vote: the room is not looked up before the upsert.
db_add_vote_unchecked(d, room_id, user_id, vote) ==
    IF value(vote) = None THEN DbErr(d, "DatabaseError")
    ELSE upsert_vote(d, room_id, user_id, unwrap(value(vote)))

\* Database::add_vote
db_add_vote(d, room_id, user_id, vote) ==
    LET room == db_get_room(d, room_id) IN
    IF ~room.ok THEN DbErr(d, room.err)
    ELSE IF room.val = None THEN DbErr(d, "NotFound")
    ELSE IF value(vote) = None THEN DbErr(d, "DatabaseError")
    ELSE upsert_vote(d, room_id, user_id, unwrap(value(vote)))

\* Mutant of db_reset_votes_for_room: the votes are deleted and the state is
\* left as it is.
db_reset_votes_for_room_keeps_state(d, room_id) ==
    DbOk([d EXCEPT !.votes =
              Without(@, {u \in DOMAIN d.votes : d.votes[u].room_id = room_id})], None)

\* Database::reset_votes_for_room
db_reset_votes_for_room(d, room_id) ==
    LET d1 == [d EXCEPT !.votes =
                   Without(@, {u \in DOMAIN d.votes : d.votes[u].room_id = room_id})]
    IN DbOk(db_update_room_state(d1, room_id, "Voting"), None)

\* Mutant of db_reveal_votes: no ownership check.
db_reveal_votes_unchecked(d, room_id, user_id) ==
    LET room == db_get_room(d, room_id) IN
    IF ~room.ok THEN DbErr(d, room.err)
    ELSE IF room.val = None THEN DbErr(d, "NotFound")
    ELSE DbOk(db_update_room_state(d, room_id, "Revealed"), None)

\* Database::reveal_votes
db_reveal_votes(d, room_id, user_id) ==
    LET room == db_get_room(d, room_id) IN
    IF ~room.ok THEN DbErr(d, room.err)
    ELSE IF room.val = None THEN DbErr(d, "NotFound")
    ELSE IF unwrap(room.val).owner_id # Some(user_id) THEN DbErr(d, "Forbidden")
    ELSE DbOk(db_update_room_state(d, room_id, "Revealed"), None)

\* Mutant of db_reset_votes: only the votes of the room's members are deleted.
db_reset_votes_members_only(d, room_id, user_id) ==
    LET room == db_get_room(d, room_id) IN
    IF ~room.ok THEN DbErr(d, room.err)
    ELSE IF room.val = None THEN DbErr(d, "NotFound")
    ELSE IF unwrap(room.val).owner_id # Some(user_id) THEN DbErr(d, "Forbidden")
    ELSE DbOk(db_update_room_state(
                  [d EXCEPT !.votes = Without(@, {u \in DOMAIN d.votes :
                       /\ d.votes[u].room_id = room_id
                       /\ u \in db_get_users_for_room(d, room_id)})],
                  room_id, "Voting"), None)

\* Database::reset_votes
db_reset_votes(d, room_id, user_id) ==
    LET room == db_get_room(d, room_id) IN
    IF ~room.ok THEN DbErr(d, room.err)
    ELSE IF room.val = None THEN DbErr(d, "NotFound")
    ELSE IF unwrap(room.val).owner_id # Some(user_id) THEN DbErr(d, "Forbidden")
    ELSE db_reset_votes_for_room(d, room_id)

\* ------------------------------------------------------------------------
\* state.rs: AppState.room_events, the registry of per-room senders, as the
\* set of room ids that have one, and the RoomEvent values the handlers send.
\* ------------------------------------------------------------------------
get_room_event_sender(ch, room_id) == IF room_id \in ch THEN Some(room_id) ELSE None
ensure_room_event_sender(ch, room_id) == IF room_id \in ch THEN ch ELSE ch \cup {room_id}
remove_room_event_sender(ch, room_id) == ch \ {room_id}

\* tx.send(event) on the sender of room_id: what the channel is handed.
send(room_id, event) == <<[room |-> room_id, event |-> event]>>

RoomUpdated(room_id) == [type |-> "RoomUpdated", room_id |-> room_id]
UserJoined(room_id, user_id) == [type |-> "UserJoined", room_id |-> room_id, user_id |-> user_id]
UserLeft(room_id, user_id) == [type |-> "UserLeft", room_id |-> room_id, user_id |-> user_id]
VoteSubmitted(user_id) == [type |-> "VoteSubmitted", user_id |-> user_id]
VotesRevealed(votes) == [type |-> "VotesRevealed", votes |-> votes]
VotesReset == [type |-> "VotesReset"]

\* ------------------------------------------------------------------------
\* models/room.rs
\* ------------------------------------------------------------------------
\* Room::new, with the RoomId::new() it draws passed in; owner is an
\* Option<User>.
Room_new(owner, id) ==
    [id |-> id,
     state |-> "Voting",
     users |-> IF owner = None THEN EmptyMap
               ELSE [u \in {unwrap(owner).id} |-> unwrap(owner)],
     votes |-> EmptyMap,
     owner_id |-> IF owner = None THEN None ELSE Some(unwrap(owner).id)]

\* ------------------------------------------------------------------------
\* routes/room.rs and routes/vote.rs: a handler maps the database and the
\* registry to what it leaves of them, its response and the events it sent.
\* ------------------------------------------------------------------------
Resp(d, ch, res, events) == [db |-> d, room_events |-> ch, res |-> res, events |-> events]

\* Mutant of create_room: the creator is made an observer.
create_room_observer(d, ch, creator_name, new_user, new_room) ==
    LET owner == IF creator_name = None THEN None
                 ELSE Some(User_new(unwrap(creator_name), TRUE, new_user))
        room == Room_new(owner, new_room)
        r == db_create_room(d, room)
    IN IF ~r.ok THEN Resp(r.db, ch, Err(r.err), <<>>)
       ELSE Resp(r.db, ensure_room_event_sender(ch, new_room), Ok(room),
                 send(new_room, RoomUpdated(new_room)))

\* create_room; creator_name is request.creator_name, new_user and new_room
\* are the fresh UserId and RoomId.
create_room(d, ch, creator_name, new_user, new_room) ==
    LET owner == IF creator_name = None THEN None
                 ELSE Some(User_new(unwrap(creator_name), FALSE, new_user))
        room == Room_new(owner, new_room)
        r == db_create_room(d, room)
    IN IF ~r.ok THEN Resp(r.db, ch, Err(r.err), <<>>)
       ELSE Resp(r.db, ensure_room_event_sender(ch, new_room), Ok(room),
                 send(new_room, RoomUpdated(new_room)))

\* get_room
get_room(d, ch, room_id) ==
    LET room == db_get_room(d, room_id) IN
    IF ~room.ok THEN Resp(d, ch, Err(room.err), <<>>)
    ELSE IF room.val = None THEN Resp(d, ch, Err("NotFound"), <<>>)
    ELSE Resp(d, ch, Ok(unwrap(room.val)), <<>>)

\* CreateUserRequest.is_observer.unwrap_or(false)
unwrap_or(o, default) == IF o = None THEN default ELSE unwrap(o)

\* join_room; request is the CreateUserRequest and new_user the fresh
\* UserId of User::new.
join_room(d, ch, room_id, request, new_user) ==
    LET room == db_get_room(d, room_id) IN
    IF ~room.ok THEN Resp(d, ch, Err(room.err), <<>>)
    ELSE IF room.val = None THEN Resp(d, ch, Err("NotFound"), <<>>)
    ELSE LET user == User_new(request.name, unwrap_or(request.is_observer, FALSE), new_user)
             r == db_add_user(d, user, room_id)
         IN IF ~r.ok THEN Resp(r.db, ch, Err(r.err), <<>>)
            ELSE Resp(r.db, ensure_room_event_sender(ch, room_id), Ok(user),
                      send(room_id, UserJoined(room_id, new_user)))

\* What users.iter().next() may yield for a HashMap with the keys S.
iter_next(S) == IF S = {} THEN {None} ELSE {Some(u) : u \in S}

\* Mutant of leave_succession: the owner is never reassigned.
leave_succession_keeps_owner(d, ch, room_id, user_id, first) ==
    LET room == db_get_room(d, room_id) IN
    IF ~room.ok THEN [db |-> d, room_events |-> ch, ok |-> FALSE, err |-> room.err]
    ELSE IF /\ room.val # None
            /\ unwrap(room.val).owner_id = Some(user_id)
            /\ db_count_users_in_room(d, room_id) = 0
    THEN [db |-> db_delete_room(d, room_id).db,
          room_events |-> remove_room_event_sender(ch, room_id), ok |-> TRUE]
    ELSE [db |-> d, room_events |-> ch, ok |-> TRUE]

\* The succession step of leave_room (lines 121-146), after the user is
\* removed; first is what users.iter().next() yields.
leave_succession(d, ch, room_id, user_id, first) ==
    LET room == db_get_room(d, room_id) IN
    IF ~room.ok THEN [db |-> d, room_events |-> ch, ok |-> FALSE, err |-> room.err]
    ELSE IF room.val # None /\ unwrap(room.val).owner_id = Some(user_id)
    THEN IF db_count_users_in_room(d, room_id) > 0
         THEN [db |-> IF first # None
                      THEN db_update_room_owner(d, room_id, first)
                      ELSE d,
               room_events |-> ch, ok |-> TRUE]
         ELSE [db |-> db_delete_room(d, room_id).db,
               room_events |-> remove_room_event_sender(ch, room_id), ok |-> TRUE]
    ELSE [db |-> d, room_events |-> ch, ok |-> TRUE]

\* leave_room
leave_room(d, ch, room_id, user_id, first) ==
    LET r == db_remove_user(d, user_id) IN
    IF r.val = None THEN Resp(r.db, ch, Err("NotFound"), <<>>)
    ELSE LET events == IF get_room_event_sender(ch, room_id) # None
                       THEN send(room_id, UserLeft(room_id, user_id))
                       ELSE <<>>
             s == leave_succession(r.db, ch, room_id, user_id, first)
         IN IF ~s.ok THEN Resp(s.db, s.room_events, Err(s.err), events)
            ELSE Resp(s.db, s.room_events, Ok(unwrap(r.val).user), events)

\* Mutant of submit_vote: the VoteSubmitted event carries the vote.
submit_vote_leaks(d, ch, room_id, user_id, vote_value) ==
    LET vote == from_string(vote_value) IN
    IF ~vote.ok THEN Resp(d, ch, Err("BadRequest"), <<>>)
    ELSE LET r == db_add_vote(d, room_id, user_id, vote.val) IN
         IF ~r.ok THEN Resp(r.db, ch, Err(r.err), <<>>)
         ELSE Resp(r.db, ch, Ok("Vote submitted successfully"),
                   IF get_room_event_sender(ch, room_id) # None
                   THEN send(room_id, [type |-> "VoteSubmitted", user_id |-> user_id,
                                       value |-> unwrap(value(vote.val))])
                   ELSE <<>>)

\* submit_vote
submit_vote(d, ch, room_id, user_id, vote_value) ==
    LET vote == from_string(vote_value) IN
    IF ~vote.ok THEN Resp(d, ch, Err("BadRequest"), <<>>)
    ELSE LET r == db_add_vote(d, room_id, user_id, vote.val) IN
         IF ~r.ok THEN Resp(r.db, ch, Err(r.err), <<>>)
         ELSE Resp(r.db, ch, Ok("Vote submitted successfully"),
                   IF get_room_event_sender(ch, room_id) # None
                   THEN send(room_id, VoteSubmitted(user_id))
                   ELSE <<>>)

\* Mutant of vote_payloads: no room.users.contains_key(user_id) test.
RECURSIVE vote_payloads_unfiltered(_, _)
vote_payloads_unfiltered(room, keys) ==
    IF keys = {} THEN <<>>
    ELSE LET user_id == CHOOSE u \in keys : TRUE
             vote == room.votes[user_id]
         IN <<[user_id |-> user_id,
               value |-> IF value(vote) = None THEN "hidden" ELSE unwrap(value(vote))]>>
            \o vote_payloads_unfiltered(room, keys \ {user_id})

\* The vote_payloads loop of reveal_votes (lines 79-88) over the votes whose
\* keys are left to visit; a HashMap is visited in no specified order.
RECURSIVE vote_payloads(_, _)
vote_payloads(room, keys) ==
    IF keys = {} THEN <<>>
    ELSE LET user_id == CHOOSE u \in keys : TRUE
             vote == room.votes[user_id]
         IN (IF user_id \in room.users
             THEN <<[user_id |-> user_id,
                     value |-> IF value(vote) = None THEN "hidden" ELSE unwrap(value(vote))]>>
             ELSE <<>>)
            \o vote_payloads(room, keys \ {user_id})

\* reveal_votes
reveal_votes(d, ch, room_id, user_id) ==
    LET r == db_reveal_votes(d, room_id, user_id) IN
    IF ~r.ok THEN Resp(r.db, ch, Err(r.err), <<>>)
    ELSE IF get_room_event_sender(ch, room_id) = None
    THEN Resp(r.db, ch, Ok("Votes revealed successfully"), <<>>)
    ELSE LET room == db_get_room(r.db, room_id) IN
         IF ~room.ok THEN Resp(r.db, ch, Err(room.err), <<>>)
         ELSE IF room.val = None THEN Resp(r.db, ch, Err("NotFound"), <<>>)
         ELSE Resp(r.db, ch, Ok("Votes revealed successfully"),
                   send(room_id, VotesRevealed(
                       vote_payloads(unwrap(room.val), DOMAIN unwrap(room.val).votes))))

\* reset_votes
reset_votes(d, ch, room_id, user_id) ==
    LET r == db_reset_votes(d, room_id, user_id) IN
    IF ~r.ok THEN Resp(r.db, ch, Err(r.err), <<>>)
    ELSE Resp(r.db, ch, Ok("Votes reset successfully"),
              IF get_room_event_sender(ch, room_id) # None
              THEN send(room_id, VotesReset)
              ELSE <<>>)

\* Mutant of ws_handler: no users.contains_key(&user_id) test.
ws_handler_any_user(d, ch, room_id, user_id) ==
    LET room == db_get_room(d, room_id) IN
    IF ~room.ok THEN Resp(d, ch, Err(room.err), <<>>)
    ELSE IF room.val = None THEN Resp(d, ch, Err("NotFound"), <<>>)
    ELSE LET ch2 == ensure_room_event_sender(ch, room_id) IN
         Resp(d, ch2, Ok([room |-> room_id, user |-> user_id,
                          chan |-> unwrap(get_room_event_sender(ch2, room_id))]), <<>>)

\* routes/ws.rs, ws_handler up to the upgrade: the response is the error, or
\* the receiver rx = tx.subscribe() that the connection's send_task reads.
ws_handler(d, ch, room_id, user_id) ==
    LET room == db_get_room(d, room_id) IN
    IF ~room.ok THEN Resp(d, ch, Err(room.err), <<>>)
    ELSE IF room.val = None THEN Resp(d, ch, Err("NotFound"), <<>>)
    ELSE IF user_id \notin db_get_users_for_room(d, room_id)
    THEN Resp(d, ch, Err("BadRequest"), <<>>)
    ELSE LET ch2 == ensure_room_event_sender(ch, room_id) IN
         Resp(d, ch2, Ok([room |-> room_id, user |-> user_id,
                          chan |-> unwrap(get_room_event_sender(ch2, room_id))]), <<>>)

\* ------------------------------------------------------------------------
\* The state machine: requests served one at a time. Serving a request runs
\* its handler from the first statement to the return; the response is then
\* written back (Reply) before the next request is taken.
\* ------------------------------------------------------------------------
VARIABLES
    db,           \* the SQLite database (Database.pool)
    room_events,  \* AppState.room_events
    issued,       \* how many Uuid::new_v4() values have been drawn
    room_ids,     \* the values among them drawn by RoomId::new()
    last,         \* the request whose response is being written back: its
                  \* arguments, the database and registry it found, the
                  \* response and the events sent
    tasks,        \* the requests in flight (one tokio task per request), used
                  \* by the interleaved specification Conc
    subs,         \* the broadcast receivers of the open WebSocket connections
    channels      \* the broadcast channels made so far, each with the events
                  \* sent on it, used by the specification Stream

vars == <<db, room_events, issued, room_ids, last, tasks, subs, channels>>

\* The ids a request may carry in its path and body: any RoomId (UserId)
\* handed out so far, whether or not its row still exists, or a well-formed
\* uuid that was never handed out (0).
RoomIdArgs == room_ids \cup {0}
UserIdArgs == ((1..issued) \ room_ids) \cup {0}

\* The bodies of the create room and join requests: CreateRoomRequest
\* .creator_name and CreateUserRequest.
CreatorNames == {None, Some("Alice")}
JoinRequests == {[name |-> "Bob", is_observer |-> None]}

Idle == [op |-> "none"]

Init ==
    /\ db = EmptyDb
    /\ room_events = {}
    /\ issued = 0
    /\ room_ids = {}
    /\ last = Idle
    /\ tasks = EmptyBag
    /\ subs = {}
    /\ channels = <<>>

\* The request and outcome record of one served request.
Served(op, room_id, user_id, vote, out) ==
    [op |-> op, room_id |-> room_id, user_id |-> user_id, vote |-> vote,
     pre |-> [db |-> db, room_events |-> room_events],
     res |-> out.res, events |-> out.events]

Commit(out, drawn, served) ==
    /\ last = Idle
    /\ db' = out.db
    /\ room_events' = out.room_events
    /\ issued' = issued + drawn
    /\ last' = served
    /\ UNCHANGED <<tasks, subs, channels>>

CreateRoom ==
    \E creator_name \in CreatorNames :
        LET has_creator == creator_name # None
            n == IF has_creator THEN 2 ELSE 1
            new_user == issued + 1
            new_room == issued + n
            out == create_room(db, room_events, creator_name, new_user, new_room)
        IN /\ issued + n <= MaxUuid
           /\ Commit(out, n,
                     [creator_name |-> creator_name] @@
                     Served("create", new_room, IF has_creator THEN new_user ELSE 0, "", out))
           /\ room_ids' = room_ids \cup {new_room}

GetRoom ==
    \E room_id \in RoomIdArgs :
        LET out == get_room(db, room_events, room_id)
        IN /\ Commit(out, 0, Served("get", room_id, 0, "", out))
           /\ UNCHANGED room_ids

JoinRoom ==
    \E room_id \in RoomIdArgs, request \in JoinRequests :
        LET new_user == issued + 1
            out == join_room(db, room_events, room_id, request, new_user)
            \* User::new runs only once the room is found
            drawn == IF db_get_room(db, room_id).val = None THEN 0 ELSE 1
        IN /\ issued + drawn <= MaxUuid
           /\ Commit(out, drawn,
                     Served("join", room_id, IF drawn = 1 THEN new_user ELSE 0, "", out))
           /\ UNCHANGED room_ids

LeaveRoom ==
    \E room_id \in RoomIdArgs, user_id \in UserIdArgs :
        \E first \in iter_next(db_get_users_for_room(db_remove_user(db, user_id).db, room_id)) :
            LET out == leave_room(db, room_events, room_id, user_id, first)
            IN /\ Commit(out, 0, Served("leave", room_id, user_id, "", out))
               /\ UNCHANGED room_ids

SubmitVote ==
    \E room_id \in RoomIdArgs, user_id \in UserIdArgs, vote_value \in VoteInputs :
        LET out == submit_vote(db, room_events, room_id, user_id, vote_value)
        IN /\ Commit(out, 0, Served("vote", room_id, user_id, vote_value, out))
           /\ UNCHANGED room_ids

RevealVotes ==
    \E room_id \in RoomIdArgs, user_id \in UserIdArgs :
        LET out == reveal_votes(db, room_events, room_id, user_id)
        IN /\ Commit(out, 0, Served("reveal", room_id, user_id, "", out))
           /\ UNCHANGED room_ids

ResetVotes ==
    \E room_id \in RoomIdArgs, user_id \in UserIdArgs :
        LET out == reset_votes(db, room_events, room_id, user_id)
        IN /\ Commit(out, 0, Served("reset", room_id, user_id, "", out))
           /\ UNCHANGED room_ids

\* The response of the served request has been written back.
Reply ==
    /\ last # Idle
    /\ last' = Idle
    /\ UNCHANGED <<db, room_events, issued, room_ids, tasks, subs, channels>>

Next ==
    \/ CreateRoom
    \/ GetRoom
    \/ JoinRoom
    \/ LeaveRoom
    \/ SubmitVote
    \/ RevealVotes
    \/ ResetVotes
    \/ Reply

Spec == Init /\ [][Next]_vars

\* ------------------------------------------------------------------------
\* The specification SpecVote of the two conversions of models/vote.rs: a
\* vote string and a vote token are drawn, Vote::from_string and Vote::value
\* are applied to them, and the string is submitted as the vote of the
\* owner of a room.
\* ------------------------------------------------------------------------
\* The strings a VoteRequest may carry: the canonical strings, strings that
\* differ from one in letter case, and others.
VoteStrings ==
    {"0", "1", "2", "3", "5", "8", "13", "21", "?", "coffee",
     "COFFEE", "Coffee", "cOfFeE",
     "", "x", "X", "hidden", "HIDDEN", "Hidden", "4", "-1", "05", "5 ", " 5", "5.0",
     "100", "coffee!", "zero", "ZERO", "Five", "??"}

\* A room made by create room with a creator: user 1 owns room 2.
VoteInit ==
    LET made == create_room(EmptyDb, {}, Some("Alice"), 1, 2) IN
    /\ db = made.db
    /\ room_events = made.room_events
    /\ issued = 2
    /\ room_ids = {2}
    /\ tasks = EmptyBag
    /\ subs = {}
    /\ channels = <<>>
    /\ last \in {[op |-> "input", value |-> s, token |-> t] : s \in VoteStrings, t \in Vote}

\* Vote::from_string(value), token.value() and
\* Vote::from_string(token.value()) for the string and the token drawn.
ParseVote ==
    /\ last.op = "input"
    /\ last' = [op |-> "parsed", value |-> last.value, token |-> last.token,
                parsed |-> from_string(last.value),
                rendered |-> value(last.token),
                reparsed |-> IF value(last.token) = None THEN None
                             ELSE Some(from_string(unwrap(value(last.token))))]
    /\ UNCHANGED <<db, room_events, issued, room_ids, tasks, subs, channels>>

\* POST /rooms/2/vote {userId: 1, vote: {value}} with the string drawn.
SubmitVoteString ==
    LET out == submit_vote(db, room_events, 2, 1, last.value) IN
    /\ last.op = "parsed"
    /\ db' = out.db
    /\ room_events' = out.room_events
    /\ last' = Served("vote", 2, 1, last.value, out)
    /\ UNCHANGED <<issued, room_ids, tasks, subs, channels>>

VoteNext ==
    \/ ParseVote
    \/ SubmitVoteString

SpecVote == VoteInit /\ [][VoteNext]_vars

\* GET /ws/rooms/{room_id}/users/{user_id}: the upgrade is answered and, when
\* it is granted, the connection holds its receiver.
WsConnect ==
    \E room_id \in RoomIdArgs, user_id \in UserIdArgs :
        LET out == ws_handler(db, room_events, room_id, user_id)
        IN /\ last = Idle
           /\ db' = out.db
           /\ room_events' = out.room_events
           /\ subs' = IF out.res.ok THEN subs \cup {out.res.val} ELSE subs
           /\ last' = [Served("ws", room_id, user_id, "", out) EXCEPT
                          !.pre = [db |-> db, room_events |-> room_events, subs |-> subs]]
           /\ UNCHANGED <<issued, room_ids, tasks, channels>>

\* The requests that decide who may connect (they create and delete rooms,
\* users and channels) and the WebSocket upgrade, served one at a time.
NextWs ==
    \/ CreateRoom
    \/ JoinRoom
    \/ LeaveRoom
    \/ WsConnect
    \/ Reply

SpecWs == Init /\ [][NextWs]_vars

\* ------------------------------------------------------------------------
\* The interleaved specification Conc: one tokio task per request, running
\* on the multi-threaded runtime. A task yields at every .await of a
\* Database method, and another thread may run between any two accesses of
\* the DashMap, so a step of a task is one Database method call (its SQL
\* statements run back to back on the pool) or one access of the registry
\* together with the channel operation that follows it. The steps reuse the
\* Database operators above.
\*
\* Under interleaving the identity of a broadcast channel matters: in Conc
\* room_events is the DashMap itself, a function from the room ids that
\* have an entry to the channel whose sender is stored there, and subs holds
\* one record [room, user, chan] per receiver obtained by tx.subscribe().
\* The database is the file pointing_poker.db and outlives the process; the
\* registry, the tasks and the connections do not (Restart).
\* ------------------------------------------------------------------------
\* How many requests are in flight at once, and how many WebSocket
\* connections are open at once.
MaxTasks == 2
MaxSubs == 1
\* How many Uuid::new_v4() values Conc issues.
MaxConcUuid == 3

\* The vote strings the requests of Conc carry.
ConcVoteInputs == {"5", "x"}

Tasks == BagToSet(tasks)
InFlight == {r \in Tasks : r.pc # "done"}

\* A request accepted by the router: the task's locals.
Task(op, pc, room_id, user_id) ==
    [op |-> op, pc |-> pc, room_id |-> room_id, user_id |-> user_id,
     vote |-> "", tx |-> None, first |-> None, events |-> <<>>,
     persisted |-> FALSE]

\* The handler has returned res; persisted tells whether its mutating
\* Database call had returned Ok.
Done(r, res) ==
    [op |-> r.op, pc |-> "done", room_id |-> r.room_id, user_id |-> r.user_id,
     res |-> res, events |-> r.events, persisted |-> r.persisted]

\* The ids a request may carry: a RoomId or UserId is a random Uuid that a
\* client learns from the response of the create room or join request that
\* drew it, so the ids drawn by a request still in flight are not among them.
Unanswered ==
    {r.room_id : r \in {x \in InFlight : x.op = "create"}}
        \cup {r.user_id : r \in {x \in InFlight : x.op \in {"create", "join"}}}
ConcRoomIdArgs == (RoomIdArgs \ Unanswered) \cup {0}
ConcUserIdArgs == (UserIdArgs \ Unanswered) \cup {0}

\* The router spawns a task for a new request; a task takes a step. A task
\* that has returned is dropped (Return) before anything else is scheduled:
\* dropping it touches nothing that another task can see.
Spawn(r) ==
    /\ InFlight = Tasks
    /\ BagCardinality(tasks) < MaxTasks
    /\ tasks' = tasks (+) SetToBag({r})
Step(r, r2) ==
    /\ InFlight = Tasks
    /\ tasks' = (tasks (-) SetToBag({r})) (+) SetToBag({r2})

\* broadcast::channel(100): a channel no sender or receiver refers to.
LiveChannels ==
    {room_events[k] : k \in DOMAIN room_events}
        \cup {s.chan : s \in subs}
        \cup {unwrap(r.tx) : r \in {x \in InFlight : x.tx # None}}
NewChannel == CHOOSE c \in 1..(Cardinality(LiveChannels) + 1) : c \notin LiveChannels

\* tx.send(event) by a task on the sender tx it holds.
Sent(r, event) == [r EXCEPT !.events = @ \o send(r.room_id, event)]

\* What create_room, join_room and ws_handler do with the sender that
\* ensure_room_event_sender returned: send RoomUpdated, send UserJoined,
\* subscribe; then return.
WithSender(r, tx) ==
    IF r.op = "ws"
    THEN /\ Step(r, Done(r, Ok("upgrade")))
         /\ subs' = subs \cup {[room |-> r.room_id, user |-> r.user_id, chan |-> tx]}
         /\ UNCHANGED channels
    ELSE /\ Step(r, Done(Sent(r, IF r.op = "create" THEN RoomUpdated(r.room_id)
                                  ELSE UserJoined(r.room_id, r.user_id)),
                         Ok(r.op)))
         /\ UNCHANGED <<subs, channels>>

\* ensure_room_event_sender, line 72: self.room_events.get(room_id).
EnsureGet ==
    \E r \in InFlight :
        /\ r.pc = "ensure_get"
        /\ IF r.room_id \in DOMAIN room_events
           THEN WithSender(r, room_events[r.room_id])
           ELSE Step(r, [r EXCEPT !.pc = "ensure_insert"]) /\ UNCHANGED <<subs, channels>>
        /\ UNCHANGED <<db, room_events, issued, room_ids, last>>

\* ensure_room_event_sender, lines 75-77: broadcast::channel and
\* self.room_events.insert, which replaces an entry made in the meantime.
EnsureInsert ==
    \E r \in InFlight :
        /\ r.pc = "ensure_insert"
        /\ room_events' =
              [k \in DOMAIN room_events \cup {r.room_id} |->
                  IF k = r.room_id THEN NewChannel ELSE room_events[k]]
        /\ WithSender(r, NewChannel)
        /\ UNCHANGED <<db, issued, room_ids, last>>

\* The outcomes of one statement executed on the pool: it takes effect, or
\* sqlx returns an error (the database is locked by another connection, the
\* disk is full) and it has no effect. Conc takes both outcomes for the
\* second statement of Database::create_room and the first outcome elsewhere.
StatementFails == {FALSE, TRUE}

\* create_room: Room::new and, in state.db.create_room, the INSERT INTO rooms
\* (db.rs lines 111-123).
ConcCreateRoom ==
    \E creator_name \in CreatorNames :
        LET has_creator == creator_name # None
            n == IF has_creator THEN 2 ELSE 1
            new_user == issued + 1
            new_room == issued + n
            owner == IF has_creator
                     THEN Some(User_new(unwrap(creator_name), FALSE, new_user))
                     ELSE None
            room == Room_new(owner, new_room)
            r == db_insert_room(db, room)
            t == Task("create", "ensure_get", new_room, IF has_creator THEN new_user ELSE 0)
        IN /\ issued + n <= MaxConcUuid
           /\ issued' = issued + n
           /\ room_ids' = room_ids \cup {new_room}
           /\ db' = r.db
           /\ Spawn(IF ~r.ok THEN Done(t, Err(r.err))
                    ELSE IF has_creator
                    THEN [room |-> room] @@ [t EXCEPT !.pc = "create_add_user"]
                    ELSE [t EXCEPT !.persisted = TRUE])
           /\ UNCHANGED <<room_events, last, subs, channels>>

\* Database::create_room, lines 126-128: add_user for the initial user. When
\* it fails create_room returns the error and the client never learns the
\* room id.
CreateAddUser ==
    \E r \in InFlight, failed \in StatementFails :
        LET user == r.room.users[CHOOSE u \in DOMAIN r.room.users : TRUE]
            u == IF failed THEN DbErr(db, "DatabaseError")
                 ELSE db_add_user(db, user, r.room_id)
            t == Task("create", "ensure_get", r.room_id, r.user_id)
        IN /\ r.pc = "create_add_user"
           /\ db' = u.db
           /\ room_ids' = IF u.ok THEN room_ids ELSE room_ids \ {r.room_id}
           /\ Step(r, IF u.ok THEN [t EXCEPT !.persisted = TRUE] ELSE Done(t, Err(u.err)))
           /\ UNCHANGED <<room_events, issued, last, subs, channels>>

\* join_room, line 68: state.db.get_room.
JoinGetRoom ==
    \E room_id \in ConcRoomIdArgs :
        LET room == db_get_room(db, room_id)
            t == Task("join", "add_user", room_id, 0)
        IN /\ Spawn(IF ~room.ok THEN Done(t, Err(room.err))
                    ELSE IF room.val = None THEN Done(t, Err("NotFound"))
                    ELSE t)
           /\ UNCHANGED <<db, room_events, issued, room_ids, last, subs, channels>>

\* join_room, lines 76-81: User::new and state.db.add_user.
JoinAddUser ==
    \E r \in InFlight, request \in JoinRequests :
        LET new_user == issued + 1
            user == User_new(request.name, unwrap_or(request.is_observer, FALSE), new_user)
            a == db_add_user(db, user, r.room_id)
            t == [r EXCEPT !.user_id = new_user]
        IN /\ r.pc = "add_user"
           /\ issued + 1 <= MaxConcUuid
           /\ issued' = issued + 1
           /\ db' = a.db
           /\ Step(r, IF a.ok THEN [t EXCEPT !.pc = "ensure_get", !.persisted = TRUE]
                      ELSE Done(t, Err(a.err)))
           /\ UNCHANGED <<room_events, room_ids, last, subs, channels>>

\* ws_handler, lines 29-33: state.db.get_room.
WsGetRoom ==
    \E room_id \in ConcRoomIdArgs, user_id \in ConcUserIdArgs :
        LET room == db_get_room(db, room_id)
            t == Task("ws", "get_users", room_id, user_id)
        IN /\ Cardinality(subs) + Cardinality({r \in InFlight : r.op = "ws"}) < MaxSubs
           /\ Spawn(IF ~room.ok THEN Done(t, Err(room.err))
                    ELSE IF room.val = None THEN Done(t, Err("NotFound"))
                    ELSE t)
           /\ UNCHANGED <<db, room_events, issued, room_ids, last, subs, channels>>

\* ws_handler, lines 36-39: state.db.get_users_for_room and the membership
\* test.
WsGetUsers ==
    \E r \in InFlight :
        /\ r.pc = "get_users"
        /\ r.op = "ws"
        /\ Step(r, IF r.user_id \in db_get_users_for_room(db, r.room_id)
                   THEN [r EXCEPT !.pc = "ensure_get"]
                   ELSE Done(r, Err("BadRequest")))
        /\ UNCHANGED <<db, room_events, issued, room_ids, last, subs, channels>>

\* What a task that holds no sender does to announce an event: the
\* get_room_event_sender and tx.send of leave_room, submit_vote, reset_votes.
Notified(r, event) ==
    IF r.room_id \in DOMAIN room_events THEN Sent(r, event) ELSE r

\* leave_room, lines 107-111: state.db.remove_user.
LeaveRemoveUser ==
    \E room_id \in ConcRoomIdArgs, user_id \in ConcUserIdArgs :
        LET u == db_remove_user(db, user_id)
            t == Task("leave", "leave_notify", room_id, user_id)
        IN /\ db' = u.db
           /\ Spawn(IF u.val = None THEN Done(t, Err("NotFound"))
                    ELSE [t EXCEPT !.persisted = TRUE])
           /\ UNCHANGED <<room_events, issued, room_ids, last, subs, channels>>

\* leave_room, lines 114-119.
LeaveNotify ==
    \E r \in InFlight :
        /\ r.pc = "leave_notify"
        /\ Step(r, [Notified(r, UserLeft(r.room_id, r.user_id)) EXCEPT !.pc = "leave_get_room"])
        /\ UNCHANGED <<db, room_events, issued, room_ids, last, subs, channels>>

\* leave_room, lines 122-126: state.db.get_room and the owner test.
LeaveGetRoom ==
    \E r \in InFlight :
        LET room == db_get_room(db, r.room_id) IN
        /\ r.pc = "leave_get_room"
        /\ Step(r, IF ~room.ok THEN Done(r, Err(room.err))
                   ELSE IF room.val # None /\ unwrap(room.val).owner_id = Some(r.user_id)
                   THEN [r EXCEPT !.pc = "leave_count"]
                   ELSE Done(r, Ok("user")))
        /\ UNCHANGED <<db, room_events, issued, room_ids, last, subs, channels>>

\* leave_room, lines 128-130: state.db.count_users_in_room.
LeaveCount ==
    \E r \in InFlight :
        /\ r.pc = "leave_count"
        /\ Step(r, IF db_count_users_in_room(db, r.room_id) > 0
                   THEN [r EXCEPT !.pc = "leave_get_users"]
                   ELSE [r EXCEPT !.pc = "leave_delete_room"])
        /\ UNCHANGED <<db, room_events, issued, room_ids, last, subs, channels>>

\* leave_room, lines 132-133: state.db.get_users_for_room and
\* users.iter().next().
LeaveGetUsers ==
    \E r \in InFlight :
        \E first \in iter_next(db_get_users_for_room(db, r.room_id)) :
            /\ r.pc = "leave_get_users"
            /\ Step(r, IF first = None THEN Done(r, Ok("user"))
                       ELSE [r EXCEPT !.pc = "leave_update_owner", !.first = first])
            /\ UNCHANGED <<db, room_events, issued, room_ids, last, subs, channels>>

\* leave_room, lines 135-138: state.db.update_room_owner.
LeaveUpdateOwner ==
    \E r \in InFlight :
        /\ r.pc = "leave_update_owner"
        /\ db' = db_update_room_owner(db, r.room_id, r.first)
        /\ Step(r, Done(r, Ok("user")))
        /\ UNCHANGED <<room_events, issued, room_ids, last, subs, channels>>

\* leave_room, line 142: state.db.delete_room.
LeaveDeleteRoom ==
    \E r \in InFlight :
        /\ r.pc = "leave_delete_room"
        /\ db' = db_delete_room(db, r.room_id).db
        /\ Step(r, [r EXCEPT !.pc = "leave_remove_sender"])
        /\ UNCHANGED <<room_events, issued, room_ids, last, subs, channels>>

\* leave_room, line 143: state.remove_room_event_sender.
LeaveRemoveSender ==
    \E r \in InFlight :
        /\ r.pc = "leave_remove_sender"
        /\ room_events' = [k \in DOMAIN room_events \ {r.room_id} |-> room_events[k]]
        /\ Step(r, Done(r, Ok("user")))
        /\ UNCHANGED <<db, issued, room_ids, last, subs, channels>>

\* submit_vote, lines 40-41, and Database::add_vote, lines 384-392:
\* Vote::from_string, then get_room and the test of vote.value().
VoteGetRoom ==
    \E room_id \in ConcRoomIdArgs, user_id \in ConcUserIdArgs, vote_value \in ConcVoteInputs :
        LET vote == from_string(vote_value)
            room == db_get_room(db, room_id)
            t == Task("vote", "vote_upsert", room_id, user_id)
        IN /\ Spawn(IF ~vote.ok THEN Done(t, Err("BadRequest"))
                    ELSE IF ~room.ok THEN Done(t, Err(room.err))
                    ELSE IF room.val = None THEN Done(t, Err("NotFound"))
                    ELSE IF value(vote.val) = None THEN Done(t, Err("DatabaseError"))
                    ELSE [t EXCEPT !.vote = vote.val])
           /\ UNCHANGED <<db, room_events, issued, room_ids, last, subs, channels>>

\* Database::add_vote, lines 401-413: the upsert.
VoteUpsert ==
    \E r \in InFlight :
        LET u == upsert_vote(db, r.room_id, r.user_id, unwrap(value(r.vote))) IN
        /\ r.pc = "vote_upsert"
        /\ db' = u.db
        /\ Step(r, IF u.ok THEN [r EXCEPT !.pc = "vote_notify", !.persisted = TRUE]
                   ELSE Done(r, Err(u.err)))
        /\ UNCHANGED <<room_events, issued, room_ids, last, subs, channels>>

\* submit_vote, lines 47-51.
VoteNotify ==
    \E r \in InFlight :
        /\ r.pc = "vote_notify"
        /\ Step(r, Done(Notified(r, VoteSubmitted(r.user_id)), Ok("Vote submitted successfully")))
        /\ UNCHANGED <<db, room_events, issued, room_ids, last, subs, channels>>

\* The owner test of Database::reveal_votes (lines 448-459) and
\* Database::reset_votes (lines 470-481), on the room that get_room read.
check_owner(d, room_id, user_id) ==
    LET room == db_get_room(d, room_id) IN
    IF ~room.ok THEN room
    ELSE IF room.val = None THEN Err("NotFound")
    ELSE IF unwrap(room.val).owner_id # Some(user_id) THEN Err("Forbidden")
    ELSE Ok(None)

\* Database::reveal_votes, lines 448-459.
RevealCheckOwner ==
    \E room_id \in ConcRoomIdArgs, user_id \in ConcUserIdArgs :
        LET c == check_owner(db, room_id, user_id)
            t == Task("reveal", "reveal_update_state", room_id, user_id)
        IN /\ Spawn(IF c.ok THEN t ELSE Done(t, c))
           /\ UNCHANGED <<db, room_events, issued, room_ids, last, subs, channels>>

\* Database::reveal_votes, lines 461-462: update_room_state.
RevealUpdateState ==
    \E r \in InFlight :
        /\ r.pc = "reveal_update_state"
        /\ db' = db_update_room_state(db, r.room_id, "Revealed")
        /\ Step(r, [r EXCEPT !.pc = "reveal_get_sender", !.persisted = TRUE])
        /\ UNCHANGED <<room_events, issued, room_ids, last, subs, channels>>

\* reveal_votes, line 76: state.get_room_event_sender.
RevealGetSender ==
    \E r \in InFlight :
        /\ r.pc = "reveal_get_sender"
        /\ Step(r, IF r.room_id \in DOMAIN room_events
                   THEN [r EXCEPT !.pc = "reveal_get_room", !.tx = Some(room_events[r.room_id])]
                   ELSE Done(r, Ok("Votes revealed successfully")))
        /\ UNCHANGED <<db, room_events, issued, room_ids, last, subs, channels>>

\* reveal_votes, lines 78-95: state.db.get_room, the payloads and tx.send.
RevealGetRoom ==
    \E r \in InFlight :
        LET room == db_get_room(db, r.room_id) IN
        /\ r.pc = "reveal_get_room"
        /\ Step(r, IF ~room.ok THEN Done(r, Err(room.err))
                   ELSE IF room.val = None THEN Done(r, Err("NotFound"))
                   ELSE Done(Sent(r, VotesRevealed(vote_payloads(
                                 unwrap(room.val), DOMAIN unwrap(room.val).votes))),
                             Ok("Votes revealed successfully")))
        /\ UNCHANGED <<db, room_events, issued, room_ids, last, subs, channels>>

\* Database::reset_votes, lines 470-481.
ResetCheckOwner ==
    \E room_id \in ConcRoomIdArgs, user_id \in ConcUserIdArgs :
        LET c == check_owner(db, room_id, user_id)
            t == Task("reset", "reset_delete_votes", room_id, user_id)
        IN /\ Spawn(IF c.ok THEN t ELSE Done(t, c))
           /\ UNCHANGED <<db, room_events, issued, room_ids, last, subs, channels>>

\* Database::reset_votes_for_room, lines 431-438: DELETE FROM votes.
ResetDeleteVotes ==
    \E r \in InFlight :
        /\ r.pc = "reset_delete_votes"
        /\ db' = [db EXCEPT !.votes =
                     Without(@, {u \in DOMAIN db.votes : db.votes[u].room_id = r.room_id})]
        /\ Step(r, [r EXCEPT !.pc = "reset_update_state"])
        /\ UNCHANGED <<room_events, issued, room_ids, last, subs, channels>>

\* Database::reset_votes_for_room, line 440: update_room_state.
ResetUpdateState ==
    \E r \in InFlight :
        /\ r.pc = "reset_update_state"
        /\ db' = db_update_room_state(db, r.room_id, "Voting")
        /\ Step(r, [r EXCEPT !.pc = "reset_notify", !.persisted = TRUE])
        /\ UNCHANGED <<room_events, issued, room_ids, last, subs, channels>>

\* reset_votes, lines 125-128.
ResetNotify ==
    \E r \in InFlight :
        /\ r.pc = "reset_notify"
        /\ Step(r, Done(Notified(r, VotesReset), Ok("Votes reset successfully")))
        /\ UNCHANGED <<db, room_events, issued, room_ids, last, subs, channels>>

\* The response of a finished task has been written and the task dropped.
Return ==
    \E r \in Tasks :
        /\ r.pc = "done"
        /\ tasks' = tasks (-) SetToBag({r})
        /\ UNCHANGED <<db, room_events, issued, room_ids, last, subs, channels>>

\* A WebSocket client goes away, or its receiver finds the channel closed:
\* send_task ends and the receiver is dropped.
Disconnect ==
    \E s \in subs :
        /\ InFlight = Tasks
        /\ subs' = subs \ {s}
        /\ UNCHANGED <<db, room_events, issued, room_ids, last, tasks, channels>>

\* The server process is started again on the database file it left:
\* AppState::new makes an empty registry, and no task or connection of the
\* old process is left.
Restart ==
    /\ tasks = EmptyBag
    /\ DOMAIN room_events # {}
    /\ room_events' = EmptyMap
    /\ subs' = {}
    /\ UNCHANGED <<db, issued, room_ids, last, tasks, channels>>

ConcInit ==
    /\ db = EmptyDb
    /\ room_events = EmptyMap
    /\ issued = 0
    /\ room_ids = {}
    /\ last = Idle
    /\ tasks = EmptyBag
    /\ subs = {}
    /\ channels = <<>>

ConcNext ==
    \/ ConcCreateRoom
    \/ CreateAddUser
    \/ EnsureGet
    \/ EnsureInsert
    \/ JoinGetRoom
    \/ JoinAddUser
    \/ WsGetRoom
    \/ WsGetUsers
    \/ LeaveRemoveUser
    \/ LeaveNotify
    \/ LeaveGetRoom
    \/ LeaveCount
    \/ LeaveGetUsers
    \/ LeaveUpdateOwner
    \/ LeaveDeleteRoom
    \/ LeaveRemoveSender
    \/ VoteGetRoom
    \/ VoteUpsert
    \/ VoteNotify
    \/ RevealCheckOwner
    \/ RevealUpdateState
    \/ RevealGetSender
    \/ RevealGetRoom
    \/ ResetCheckOwner
    \/ ResetDeleteVotes
    \/ ResetUpdateState
    \/ ResetNotify
    \/ Return
    \/ Disconnect
    \/ Restart

Conc == ConcInit /\ [][ConcNext]_vars

\* ------------------------------------------------------------------------
\* The specification Stream of the event fan-out (state.rs, routes/ws.rs
\* lines 41-125 and the tx.send of the handlers). The membership checks of
\* ws_handler and the storage are left out: a connection is one that passed
\* them. channels[c] is the state a broadcast channel shares between its
\* Sender handles and its Receivers: the room it was made for and the
\* events sent on it so far, of which the last Capacity are retained. A
\* publisher is a handler that holds a clone of a sender between
\* get_room_event_sender / ensure_room_event_sender and tx.send (reveal_votes
\* awaits get_room in between); it is a record of tasks. A connection is a
\* record of subs: its receiver's position next, its send_task and recv_task,
\* the messages written to its socket so far, whether the peer has closed, and
\* the error err that ended its send_task.
\* ------------------------------------------------------------------------
MaxConns == 2
MaxEvents == 3
MaxChannels == 2
MaxPublishers == 1
\* broadcast::channel(100), scaled down to a backlog of Capacity events
Capacity == 2

StreamRooms == {1, 2}
ConnIds == 1..MaxConns

\* The event a handler sends for a room; n tells the events of a channel apart.
StreamEvent(room_id, n) == [room_id |-> room_id, n |-> n]

\* The receivers of channel c that have not been dropped: rx lives in
\* send_task.
Receivers(c) == {s \in subs : s.chan = c /\ s.send_task \in {"recv", "send"}}

\* Channel c is closed: every Sender handle is dropped, the one of the
\* registry (remove_room_event_sender) and the clones held by handlers.
Closed(c) ==
    /\ \A k \in DOMAIN room_events : room_events[k] # c
    /\ \A t \in DOMAIN tasks : t.tx # Some(c)

\* ensure_room_event_sender on the registry and the channels of Stream.
stream_ensure(room_id) ==
    IF room_id \in DOMAIN room_events
    THEN [room_events |-> room_events, channels |-> channels, tx |-> room_events[room_id]]
    ELSE [room_events |-> [k \in DOMAIN room_events \cup {room_id} |->
                              IF k = room_id THEN Len(channels) + 1 ELSE room_events[k]],
          channels |-> Append(channels, [room |-> room_id, log |-> <<>>]),
          tx |-> Len(channels) + 1]

\* tokio broadcast, Sender::send: the value is stored for the receivers there
\* are, whatever their positions; with no receiver it is dropped (an error
\* the handlers ignore: let _ = tx.send). It never waits.
broadcast_send(log, event, receivers) ==
    IF receivers = 0 THEN log ELSE Append(log, event)

\* Mutant of broadcast_recv: the receiver's position is not advanced.
broadcast_recv_again(log, next, closed) ==
    IF next < Len(log) - Capacity
    THEN [res |-> "Lagged", msg |-> None, next |-> Len(log) - Capacity]
    ELSE IF next < Len(log)
    THEN [res |-> "Ok", msg |-> Some(log[next + 1]), next |-> next]
    ELSE IF closed
    THEN [res |-> "Closed", msg |-> None, next |-> next]
    ELSE [res |-> "Pending", msg |-> None, next |-> next]

\* Mutant of broadcast_recv: a closed channel is not reported.
broadcast_recv_never_closed(log, next, closed) ==
    IF next < Len(log) - Capacity
    THEN [res |-> "Lagged", msg |-> None, next |-> Len(log) - Capacity]
    ELSE IF next < Len(log)
    THEN [res |-> "Ok", msg |-> Some(log[next + 1]), next |-> next + 1]
    ELSE [res |-> "Pending", msg |-> None, next |-> next]

\* tokio broadcast, Receiver::recv for a receiver that has read next events of
\* log: Err(Lagged) when the event it is to read has been overwritten, the
\* next event, Err(Closed) when there is none and the channel is closed, or
\* no result yet.
broadcast_recv(log, next, closed) ==
    IF next < Len(log) - Capacity
    THEN [res |-> "Lagged", msg |-> None, next |-> Len(log) - Capacity]
    ELSE IF next < Len(log)
    THEN [res |-> "Ok", msg |-> Some(log[next + 1]), next |-> next + 1]
    ELSE IF closed
    THEN [res |-> "Closed", msg |-> None, next |-> next]
    ELSE [res |-> "Pending", msg |-> None, next |-> next]

\* ws_handler, lines 42-53 and 114: ensure_room_event_sender, tx.subscribe(),
\* the upgrade and the two tasks spawned.
Subscribe ==
    \E room_id \in StreamRooms :
        LET e == stream_ensure(room_id) IN
        /\ Cardinality(subs) < MaxConns
        /\ Len(e.channels) <= MaxChannels
        /\ room_events' = e.room_events
        /\ channels' = e.channels
        /\ subs' = subs \cup
              {[conn |-> Cardinality(subs) + 1, room |-> room_id, chan |-> e.tx,
                start |-> Len(e.channels[e.tx].log), next |-> Len(e.channels[e.tx].log),
                send_task |-> "recv", msg |-> None, recv_task |-> "next",
                peer |-> "open", selected |-> FALSE, delivered |-> <<>>,
                err |-> None]}
        /\ UNCHANGED <<db, issued, room_ids, last, tasks>>

\* A handler takes a clone of the sender of channel tx to publish on it.
Publisher(room_id, tx) ==
    /\ BagCardinality(tasks) < MaxPublishers
    /\ Len(channels'[tx].log) + Cardinality({t \in DOMAIN tasks : t.tx = Some(tx)}) < MaxEvents
    /\ tasks' = tasks (+) SetToBag({[op |-> "publish", room_id |-> room_id, tx |-> Some(tx)]})

\* create_room line 27, join_room line 84: ensure_room_event_sender.
PublishEnsure ==
    \E room_id \in StreamRooms :
        LET e == stream_ensure(room_id) IN
        /\ Len(e.channels) <= MaxChannels
        /\ room_events' = e.room_events
        /\ channels' = e.channels
        /\ Publisher(room_id, e.tx)
        /\ UNCHANGED <<db, issued, room_ids, last, subs>>

\* leave_room line 114, submit_vote line 47, reveal_votes line 77,
\* reset_votes line 122: get_room_event_sender, when it returns a sender.
PublishGet ==
    \E room_id \in DOMAIN room_events :
        /\ channels' = channels
        /\ Publisher(room_id, room_events[room_id])
        /\ UNCHANGED <<db, room_events, issued, room_ids, last, subs>>

\* tx.send(event) of a handler, which then returns and drops its clone.
PublishSend ==
    \E t \in DOMAIN tasks :
        LET c == unwrap(t.tx) IN
        /\ channels' = [channels EXCEPT ![c].log =
                           broadcast_send(@, StreamEvent(t.room_id, Len(@) + 1),
                                          Cardinality(Receivers(c)))]
        /\ tasks' = tasks (-) SetToBag({t})
        /\ UNCHANGED <<db, room_events, issued, room_ids, last, subs>>

\* leave_room line 143: remove_room_event_sender.
RemoveSender ==
    \E room_id \in DOMAIN room_events :
        /\ room_events' = [k \in (DOMAIN room_events) \ {room_id} |-> room_events[k]]
        /\ UNCHANGED <<db, issued, room_ids, last, tasks, subs, channels>>

\* One connection takes a step.
Turn(s, s2) ==
    /\ subs' = (subs \ {s}) \cup {s2}
    /\ UNCHANGED <<db, room_events, issued, room_ids, last, tasks, channels>>

\* send_task, line 54: while let Ok(msg) = rx.recv().await. Any error,
\* Lagged as well as Closed, ends the loop and with it the task.
SendTaskRecvOf(i) ==
    \E s \in subs :
        LET r == broadcast_recv(channels[s.chan].log, s.next, Closed(s.chan)) IN
        /\ s.conn = i
        /\ s.send_task = "recv"
        /\ r.res # "Pending"
        /\ Turn(s, IF r.res = "Ok"
                   THEN [s EXCEPT !.send_task = "send", !.msg = r.msg, !.next = r.next]
                   ELSE [s EXCEPT !.send_task = "ended", !.next = r.next,
                                  !.err = Some(r.res)])

SendTaskRecv == \E i \in ConnIds : SendTaskRecvOf(i)

\* send_task, lines 104-110: sender.send(...).await; an error breaks the loop.
SendTaskSendOf(i) ==
    \E s \in subs :
        /\ s.conn = i
        /\ s.send_task = "send"
        /\ Turn(s, IF s.peer = "open"
                   THEN [s EXCEPT !.send_task = "recv", !.msg = None,
                                  !.delivered = Append(@, unwrap(s.msg))]
                   ELSE [s EXCEPT !.send_task = "ended", !.msg = None,
                                  !.err = Some("SendError")])

SendTaskSend == \E i \in ConnIds : SendTaskSendOf(i)

\* The client closes the connection, or the connection breaks.
PeerClose ==
    \E s \in subs :
        /\ s.peer = "open"
        /\ ~s.selected
        /\ Turn(s, [s EXCEPT !.peer = "closed"])

\* recv_task, line 115: while let Some(Ok(_msg)) = receiver.next().await ends
\* when the stream ends or fails.
RecvTaskNextOf(i) ==
    \E s \in subs :
        /\ s.conn = i
        /\ s.recv_task = "next"
        /\ s.peer = "closed"
        /\ Turn(s, [s EXCEPT !.recv_task = "ended"])

RecvTaskNext == \E i \in ConnIds : RecvTaskNextOf(i)

\* Mutant of select_abort: the sibling task is left running.
select_no_abort(s) ==
    [s EXCEPT !.selected = TRUE, !.peer = "closed",
              !.start = 0, !.next = 0, !.delivered = <<>>]

\* tokio::select!, lines 122-125: the branch of the task that has finished
\* aborts the other one, which is waiting in an await and is dropped there
\* with what it owns (rx, the socket half). The future of on_upgrade then
\* returns: the socket is closed, and of the connection the record keeps
\* how its tasks stopped.
select_abort(s) ==
    [s EXCEPT !.selected = TRUE, !.peer = "closed",
              !.start = 0, !.next = 0, !.delivered = <<>>, !.msg = None,
              !.send_task = IF @ \in {"recv", "send"} THEN "aborted" ELSE @,
              !.recv_task = IF @ = "next" THEN "aborted" ELSE @]

SelectOf(i) ==
    \E s \in subs :
        /\ s.conn = i
        /\ ~s.selected
        /\ s.send_task = "ended" \/ s.recv_task = "ended"
        /\ Turn(s, select_abort(s))

Select == \E i \in ConnIds : SelectOf(i)

StreamInit ==
    /\ db = EmptyDb
    /\ room_events = EmptyMap
    /\ issued = 0
    /\ room_ids = {}
    /\ last = Idle
    /\ tasks = EmptyBag
    /\ subs = {}
    /\ channels = <<>>

StreamNext ==
    \/ Subscribe
    \/ PublishEnsure
    \/ PublishGet
    \/ PublishSend
    \/ RemoveSender
    \/ SendTaskRecv
    \/ SendTaskSend
    \/ PeerClose
    \/ RecvTaskNext
    \/ Select

Stream == StreamInit /\ [][StreamNext]_vars

\* tokio schedules every spawned task that can run, and the future of
\* on_upgrade that waits in select!: a recv() that has a result returns it, a
\* socket send completes or fails, and select! takes a finished task.
StreamFair ==
    /\ StreamInit
    /\ [][StreamNext]_vars
    /\ \A i \in ConnIds :
           /\ WF_vars(SendTaskRecvOf(i))
           /\ WF_vars(SendTaskSendOf(i))
           /\ WF_vars(SelectOf(i))

\* ------------------------------------------------------------------------
\* Properties. A state with last # Idle is the state a handler left; last.pre
\* is the state it found.
\* ------------------------------------------------------------------------
Answered == last # Idle
PreRoom == db_get_room(last.pre.db, last.room_id).val
NowRoom == db_get_room(db, last.room_id).val
Failed(e) == ~last.res.ok /\ last.res.err = e

\* C1: a reveal or reset request by a user id that is not the owner_id of the
\* room it names fails with Forbidden, leaves the room's state, votes, users
\* and owner_id as they were, and sends no event.
C1_NonOwnerForbidden ==
    (/\ Answered
     /\ last.op \in {"reveal", "reset"}
     /\ PreRoom # None
     /\ unwrap(PreRoom).owner_id # Some(last.user_id))
    => (/\ Failed("Forbidden")
        /\ NowRoom = PreRoom
        /\ db = last.pre.db
        /\ last.events = <<>>)

\* A member who is not the owner asks for a reset of a revealed room that has
\* votes, and is refused.
C1_Witness ==
    /\ Answered
    /\ last.op = "reset"
    /\ PreRoom # None
    /\ last.user_id \in unwrap(PreRoom).users
    /\ unwrap(PreRoom).state = "Revealed"
    /\ DOMAIN unwrap(PreRoom).votes # {}
    /\ Failed("Forbidden")

\* C2: after a leave request naming a room and one of its users, while users
\* remain in the room, the room's owner_id is the id of one of them (so the
\* id of the last one when one remains).
C2_OwnerAmongRemaining ==
    (/\ Answered
     /\ last.op = "leave"
     /\ last.res.ok
     /\ PreRoom # None
     /\ last.user_id \in unwrap(PreRoom).users
     /\ unwrap(PreRoom).users # {last.user_id})
    => (/\ NowRoom # None
        /\ unwrap(NowRoom).users = unwrap(PreRoom).users \ {last.user_id}
        /\ \E u \in unwrap(NowRoom).users : unwrap(NowRoom).owner_id = Some(u))

\* C3: a leave request that removes the last user of the room it names
\* deletes the room, so get room answers not-found.
C3_LastLeaveDeletesRoom ==
    (/\ Answered
     /\ last.op = "leave"
     /\ last.res.ok
     /\ PreRoom # None
     /\ unwrap(PreRoom).users = {last.user_id})
    => (/\ last.room_id \notin DOMAIN db.rooms
        /\ get_room(db, room_events, last.room_id).res = Err("NotFound"))

\* C4: when the owner of the room named by a leave request leaves and other
\* users remain, the room's owner_id becomes the id of one of them, a reveal
\* by that user succeeds, and a reveal or a reset by the user who left fails
\* with Forbidden.
C4_OwnerSuccession ==
    (/\ Answered
     /\ last.op = "leave"
     /\ last.res.ok
     /\ PreRoom # None
     /\ unwrap(PreRoom).owner_id = Some(last.user_id)
     /\ unwrap(PreRoom).users \ {last.user_id} # {})
    => (/\ NowRoom # None
        /\ unwrap(NowRoom).users = unwrap(PreRoom).users \ {last.user_id}
        /\ unwrap(NowRoom).owner_id # None
        /\ unwrap(unwrap(NowRoom).owner_id) \in unwrap(NowRoom).users
        /\ LET new_owner == unwrap(unwrap(NowRoom).owner_id)
               by_new == reveal_votes(db, room_events, last.room_id, new_owner)
           IN /\ by_new.res.ok
              /\ db_get_room(by_new.db, last.room_id) # Ok(None)
              /\ unwrap(db_get_room(by_new.db, last.room_id).val).state = "Revealed"
        /\ reveal_votes(db, room_events, last.room_id, last.user_id).res = Err("Forbidden")
        /\ reset_votes(db, room_events, last.room_id, last.user_id).res = Err("Forbidden"))

\* The owner of a room with three users has left it.
C4_Witness ==
    /\ Answered
    /\ last.op = "leave"
    /\ last.res.ok
    /\ PreRoom # None
    /\ unwrap(PreRoom).owner_id = Some(last.user_id)
    /\ Cardinality(unwrap(PreRoom).users) = 3
    /\ NowRoom # None
    /\ unwrap(NowRoom).owner_id # Some(last.user_id)

\* C5: a room is in state Voting when create room and when a successful reset
\* return, and a room that was not Revealed is Revealed only after a reveal
\* request naming it whose userId was its owner_id.
C5_StateDiscipline ==
    Answered =>
        /\ (last.op \in {"create", "reset"} /\ last.res.ok)
            => (NowRoom # None /\ unwrap(NowRoom).state = "Voting")
        /\ \A r \in DOMAIN db.rooms :
            (/\ db_get_room(db, r).ok
             /\ unwrap(db_get_room(db, r).val).state = "Revealed"
             /\ \/ r \notin DOMAIN last.pre.db.rooms
                \/ unwrap(db_get_room(last.pre.db, r).val).state # "Revealed")
            => (/\ last.op = "reveal"
                /\ last.res.ok
                /\ last.room_id = r
                /\ PreRoom # None
                /\ unwrap(PreRoom).owner_id = Some(last.user_id))

\* The owner has revealed a room that was Voting.
C5_Witness ==
    /\ Answered
    /\ last.op = "reveal"
    /\ last.res.ok
    /\ unwrap(PreRoom).state = "Voting"
    /\ unwrap(NowRoom).state = "Revealed"

\* C6: a reset request by the owner of the room it names succeeds and leaves
\* the room Voting with no votes, with the users and owner_id it had.
C6_ResetClears ==
    (/\ Answered
     /\ last.op = "reset"
     /\ PreRoom # None
     /\ unwrap(PreRoom).owner_id = Some(last.user_id))
    => (/\ last.res.ok
        /\ NowRoom # None
        /\ unwrap(NowRoom).state = "Voting"
        /\ DOMAIN unwrap(NowRoom).votes = {}
        /\ {u \in DOMAIN db.votes : db.votes[u].room_id = last.room_id} = {}
        /\ unwrap(NowRoom).users = unwrap(PreRoom).users
        /\ unwrap(NowRoom).owner_id = unwrap(PreRoom).owner_id)

\* The owner has reset a revealed room that had two votes.
C6_Witness ==
    /\ Answered
    /\ last.op = "reset"
    /\ last.res.ok
    /\ unwrap(PreRoom).state = "Revealed"
    /\ Cardinality(DOMAIN unwrap(PreRoom).votes) = 2
    /\ unwrap(NowRoom).state = "Voting"

\* The entries of a VotesRevealed payload that name user u.
EntriesFor(votes, u) == {i \in DOMAIN votes : votes[i].user_id = u}

\* C7: a successful reveal sends, on the channel of the room, one
\* VotesRevealed event that holds exactly one entry for every member of the
\* room with a vote stored in the room, whose value is the stored string, and
\* no entry for anyone else.
C7_RevealPayload ==
    (/\ Answered
     /\ last.op = "reveal"
     /\ last.res.ok)
    => (/\ Len(last.events) = 1
        /\ last.events[1].room = last.room_id
        /\ last.events[1].event.type = "VotesRevealed"
        /\ LET votes == last.events[1].event.votes
               voted == {u \in DOMAIN db.votes : db.votes[u].room_id = last.room_id}
           IN /\ \A u \in voted \cap db_get_users_for_room(db, last.room_id) :
                    /\ Cardinality(EntriesFor(votes, u)) = 1
                    /\ \A i \in EntriesFor(votes, u) : votes[i].value = db.votes[u].vote
              /\ \A i \in DOMAIN votes :
                    votes[i].user_id \in voted \cap db_get_users_for_room(db, last.room_id))

\* A reveal of a room in which a member and a user of another room have
\* votes stored.
C7_Witness ==
    /\ Answered
    /\ last.op = "reveal"
    /\ last.res.ok
    /\ Len(last.events) = 1
    /\ Len(last.events[1].event.votes) = 1
    /\ Cardinality(DOMAIN unwrap(NowRoom).votes) = 2

\* C8: a successful submit vote for a user who has a vote stored in the room
\* keeps the set of votes of the room, the room then shows the vote just
\* submitted for the user, and submitting the same vote again changes
\* nothing.
C8_VoteOverwrites ==
    (/\ Answered
     /\ last.op = "vote"
     /\ last.res.ok)
    => (/\ (PreRoom # None /\ last.user_id \in DOMAIN unwrap(PreRoom).votes)
            => (/\ DOMAIN unwrap(NowRoom).votes = DOMAIN unwrap(PreRoom).votes
                /\ unwrap(NowRoom).votes[last.user_id] = from_string(last.vote).val
                /\ DOMAIN db.votes = DOMAIN last.pre.db.votes)
        /\ LET again == submit_vote(db, room_events, last.room_id, last.user_id, last.vote)
           IN again.res.ok /\ again.db = db /\ again.room_events = room_events)

\* A vote stored in the room has been replaced by a different one.
C8_Witness ==
    /\ Answered
    /\ last.op = "vote"
    /\ last.res.ok
    /\ PreRoom # None
    /\ last.user_id \in DOMAIN unwrap(PreRoom).votes
    /\ unwrap(PreRoom).votes[last.user_id] # unwrap(NowRoom).votes[last.user_id]

\* C9: every stored vote belongs to a user who is a member of the room the
\* vote is stored in.
C9_VotesOfMembers ==
    \A u \in DOMAIN db.votes :
        /\ u \in DOMAIN db.users
        /\ db.users[u].room_id = db.votes[u].room_id

\* The vote strings of VoteInputs that submit vote accepts, and one of them.
AcceptedVoteInputs == {x \in VoteInputs : from_string(x).ok}
OneVoteInput == CHOOSE x \in AcceptedVoteInputs : TRUE

\* Database d and vote string v with every vote value replaced by one and the
\* same value. Two runs that differ only in the vote values submitted have,
\* step by step, the same SameVotes databases and SameVote requests.
SameVotes(d) ==
    [d EXCEPT !.votes = [u \in DOMAIN d.votes |->
        [room_id |-> d.votes[u].room_id,
         vote |-> unwrap(value(from_string(OneVoteInput).val))]]]
SameVote(v) == IF v \in AcceptedVoteInputs THEN OneVoteInput ELSE v

\* A database and a sequence of sent events with the vote values blanked.
NoValues(d) ==
    [d EXCEPT !.votes = [u \in DOMAIN d.votes |-> [room_id |-> d.votes[u].room_id]]]
NoValuesSent(events) ==
    [i \in DOMAIN events |->
        IF events[i].event.type = "VotesRevealed"
        THEN [room |-> events[i].room, type |-> "VotesRevealed",
              users |-> [j \in DOMAIN events[i].event.votes |->
                            events[i].event.votes[j].user_id]]
        ELSE events[i]]

\* What the request of last may leave when it is served from database d and
\* registry ch with vote string v.
Replays(d, ch, v) ==
    CASE last.op = "create" ->
            {create_room(d, ch, last.creator_name, last.user_id, last.room_id)}
      [] last.op = "get" -> {get_room(d, ch, last.room_id)}
      [] last.op = "join" ->
            {join_room(d, ch, last.room_id, q, last.user_id) : q \in JoinRequests}
      [] last.op = "leave" ->
            {leave_room(d, ch, last.room_id, last.user_id, first) :
                first \in iter_next(db_get_users_for_room(
                              db_remove_user(d, last.user_id).db, last.room_id))}
      [] last.op = "vote" -> {submit_vote(d, ch, last.room_id, last.user_id, v)}
      [] last.op = "reveal" -> {reveal_votes(d, ch, last.room_id, last.user_id)}
      [] last.op = "reset" -> {reset_votes(d, ch, last.room_id, last.user_id)}

\* C10: vote values stay off the channels until a reveal. The event of submit
\* vote holds the voter's id and nothing else; an event that holds vote values
\* is a VotesRevealed sent by a reveal of the room's owner once the room is
\* stored as Revealed; and every request answers, sends events (but for the
\* values inside VotesRevealed) and leaves the database (but for the vote
\* values) exactly as it does when every stored and submitted vote value is
\* replaced by one value, so that two runs that differ only in the vote
\* values submitted, each agreeing with that common run, send the same events
\* up to the first VotesRevealed.
C10_VotesHiddenUntilReveal ==
    Answered =>
        /\ last.op = "vote" =>
              \A i \in DOMAIN last.events :
                  /\ DOMAIN last.events[i].event = {"type", "user_id"}
                  /\ last.events[i].event = VoteSubmitted(last.user_id)
        /\ \A i \in DOMAIN last.events :
              \/ /\ DOMAIN last.events[i].event \subseteq {"type", "room_id", "user_id"}
                 /\ last.events[i].event.type # "VotesRevealed"
              \/ /\ last.events[i].event.type = "VotesRevealed"
                 /\ last.op = "reveal"
                 /\ last.events[i].room = last.room_id
                 /\ unwrap(PreRoom).owner_id = Some(last.user_id)
                 /\ db.rooms[last.room_id].state = "revealed"
        /\ \E out2 \in Replays(SameVotes(last.pre.db), last.pre.room_events,
                               SameVote(last.vote)) :
              /\ NoValuesSent(out2.events) = NoValuesSent(last.events)
              /\ out2.res.ok = last.res.ok
              /\ (~last.res.ok) => out2.res = last.res
              /\ NoValues(out2.db) = NoValues(db)
              /\ out2.room_events = room_events

\* A vote has been submitted and announced in a room that already holds a
\* vote.
C10_Witness ==
    /\ Answered
    /\ last.op = "vote"
    /\ last.res.ok
    /\ last.events = send(last.room_id, VoteSubmitted(last.user_id))
    /\ DOMAIN unwrap(PreRoom).votes # {}
    /\ last.user_id \notin DOMAIN unwrap(PreRoom).votes

\* ------------------------------------------------------------------------
\* Properties of the interleaved specification Conc.
\* ------------------------------------------------------------------------
\* The step from the current state to the next is a step of task r.
Moves(r) == CopiesIn(r, tasks') < CopiesIn(r, tasks)

\* C11: every persistent write of a mutating request is complete before the
\* request publishes its event: a task that has sent its event writes nothing
\* to the database afterwards, so a get room made when the event arrives
\* shows the whole change (for leave: the user removal and the owner
\* reassignment or room deletion).
C11_PersistThenPublish ==
    [][\A r \in InFlight : (Moves(r) /\ r.events # <<>>) => db' = db]_vars

\* C12: ensure_room_event_sender is race-free. A channel registered for a
\* room id is never replaced by another one while it is registered, so that
\* every caller of ensure for the room obtains the same channel and one
\* channel at most is alive for it; and every receiver subscribed for a room
\* that has a registered sender is a receiver of that sender's channel, so
\* that what a publisher sends after the subscription reaches it.
C12_EnsureRaceFree ==
    [][/\ \A k \in DOMAIN room_events \cap DOMAIN room_events' :
             room_events'[k] = room_events[k]
       /\ \A s \in subs' :
             s.room \in DOMAIN room_events' => s.chan = room_events'[s.room]]_vars

\* C13: a join, leave, submit vote, reveal or reset request whose persistent
\* mutation has succeeded reports success, whatever the handler meets
\* afterwards (no channel, no subscriber, a later read or write that fails).
C13_SuccessOncePersisted ==
    \A r \in Tasks :
        (/\ r.pc = "done"
         /\ r.op \in {"join", "leave", "vote", "reveal", "reset"}
         /\ r.persisted)
        => r.res.ok

\* C18: whatever the interleaving of leave and join requests for a room, once
\* a leave request naming the room has completed and no request is in flight
\* the room is deleted or its owner_id is not the id of the user who left.
C18_NoStaleOwner ==
    \A r \in Tasks :
        (/\ InFlight = {}
         /\ r.pc = "done"
         /\ r.op = "leave"
         /\ r.res.ok
         /\ r.room_id \in DOMAIN db.rooms)
        => db.rooms[r.room_id].owner_id # Some(r.user_id)

\* C19: whenever no request is in flight, the channel registry holds no
\* channel for a room id that has no room record.
C19_NoChannelWithoutRoom ==
    tasks = EmptyBag => DOMAIN room_events \subseteq DOMAIN db.rooms

\* C20: reveal is atomic: when a reveal request writes the state Revealed
\* (update_room_state), the room record exists and the requesting user is the
\* room's current owner.
C20_RevealAtomic ==
    [][\A r \in InFlight :
          (r.pc = "reveal_update_state" /\ Moves(r))
          => /\ r.room_id \in DOMAIN db.rooms
             /\ db.rooms[r.room_id].owner_id = Some(r.user_id)]_vars

\* ------------------------------------------------------------------------
\* Further properties of the sequential specification Spec.
\* ------------------------------------------------------------------------
\* The request of last names a room that has no row (join, submit vote,
\* reveal, reset) or a user that has no row (leave).
NamesAbsent ==
    \/ last.op \in {"join", "vote", "reveal", "reset"}
          /\ last.room_id \notin DOMAIN last.pre.db.rooms
    \/ last.op = "leave" /\ last.user_id \notin DOMAIN last.pre.db.users

\* The request of last failed with NotFound, wrote nothing, created no
\* channel and sent no event.
NotFoundNoEffect ==
    /\ Failed("NotFound")
    /\ db = last.pre.db
    /\ room_events = last.pre.room_events
    /\ last.events = <<>>

\* C14 as stated: every join, submit vote, reveal or reset that names a room
\* with no room record, and every leave that names a user with no user
\* record, fails with NotFound, persists nothing, creates no channel and
\* publishes no event.
C14_AbsentNotFound_Stated ==
    (Answered /\ NamesAbsent) => NotFoundNoEffect

\* C14, amended: the same for every such request but a submit vote whose
\* vote string does not parse, which fails with BadRequest; it too persists
\* nothing, creates no channel and publishes no event.
C14_AbsentNotFound ==
    (Answered /\ NamesAbsent) =>
        IF last.op = "vote" /\ ~from_string(last.vote).ok
        THEN /\ Failed("BadRequest")
             /\ db = last.pre.db
             /\ room_events = last.pre.room_events
             /\ last.events = <<>>
        ELSE NotFoundNoEffect

\* A well-formed vote has been submitted by a user of one room to a room
\* that has been deleted, and was answered NotFound.
C14_Witness ==
    /\ Answered
    /\ last.op = "vote"
    /\ from_string(last.vote).ok
    /\ last.room_id \in room_ids
    /\ last.room_id \notin DOMAIN last.pre.db.rooms
    /\ last.user_id \in DOMAIN last.pre.db.users
    /\ Failed("NotFound")

\* C15: a WebSocket upgrade for (roomId, userId) is granted, and a receiver
\* on the room's channel created, if and only if the room record exists and
\* userId is a user of that room when the upgrade is handled; otherwise the
\* request fails with an error and neither a channel nor a receiver is
\* created.
C15_UpgradeForMembersOnly ==
    (Answered /\ last.op = "ws") =>
        IF PreRoom # None /\ last.user_id \in unwrap(PreRoom).users
        THEN /\ last.res.ok
             /\ last.res.val.room = last.room_id
             /\ last.res.val.user = last.user_id
             /\ get_room_event_sender(room_events, last.room_id) = Some(last.res.val.chan)
             /\ subs = last.pre.subs \cup {last.res.val}
        ELSE /\ ~last.res.ok
             /\ last.res.err \in {"NotFound", "BadRequest"}
             /\ subs = last.pre.subs
             /\ room_events = last.pre.room_events

\* An upgrade has been granted to a user of the room while another room has
\* a user and a connection of its own.
C15_Witness ==
    /\ Answered
    /\ last.op = "ws"
    /\ last.res.ok
    /\ \E s \in subs : s.room # last.room_id
    /\ \E u \in DOMAIN db.users : db.users[u].room_id # last.room_id

\* C17: create room with a creatorName leaves a persisted room with exactly
\* one user, named creatorName and not an observer, in state Voting, with no
\* votes and with owner_id that user's id; create room without a creatorName
\* leaves a room with no users, no owner, state Voting and no votes; either
\* way the room has a channel when the request returns.
C17_CreatedRoom ==
    (Answered /\ last.op = "create") =>
        /\ last.res.ok
        /\ NowRoom # None
        /\ unwrap(NowRoom).state = "Voting"
        /\ DOMAIN unwrap(NowRoom).votes = {}
        /\ {u \in DOMAIN db.votes : db.votes[u].room_id = last.room_id} = {}
        /\ get_room_event_sender(room_events, last.room_id) # None
        /\ IF last.creator_name # None
           THEN /\ unwrap(NowRoom).users = {last.user_id}
                /\ unwrap(NowRoom).owner_id = Some(last.user_id)
                /\ db.users[last.user_id].name = unwrap(last.creator_name)
                /\ db.users[last.user_id].is_observer = 0
                /\ last.res.val.users[last.user_id] =
                       User_new(unwrap(last.creator_name), FALSE, last.user_id)
           ELSE /\ unwrap(NowRoom).users = {}
                /\ unwrap(NowRoom).owner_id = None
                /\ DOMAIN last.res.val.users = {}

\* A room has been created with a creator while another room, with users
\* and a vote, exists.
C17_Witness ==
    /\ Answered
    /\ last.op = "create"
    /\ last.creator_name # None
    /\ last.res.ok
    /\ Cardinality(DOMAIN db.rooms) = 2
    /\ DOMAIN db.votes # {}

\* ------------------------------------------------------------------------
\* Properties of the conversions (SpecVote).
\* ------------------------------------------------------------------------
\* The canonical strings of the ten tokens other than Hidden.
Canonical == {unwrap(value(t)) : t \in Vote \ {"Hidden"}}

\* Submit vote with the string of last was refused as bad input, stored no
\* vote and published no event.
RefusedBadInput ==
    /\ Failed("BadRequest")
    /\ db = last.pre.db
    /\ last.events = <<>>

\* The round trip of the token drawn, and Hidden has no value.
RoundTrip ==
    last.op = "parsed" =>
        IF last.token = "Hidden"
        THEN last.rendered = None
        ELSE /\ last.rendered # None
             /\ last.reparsed = Some(Ok(last.token))

\* C16 as stated: from_string(value(token)) is the token for each of the ten
\* tokens other than Hidden, value(Hidden) is absent, and from_string fails
\* for every string that is not the canonical string of one of the ten
\* tokens, so that submit vote with such a string returns BadInput, stores
\* no vote and publishes no event.
C16_VoteRoundTrip_Stated ==
    /\ RoundTrip
    /\ (last.op = "parsed" /\ last.value \notin Canonical) => ~last.parsed.ok
    /\ (last.op = "vote" /\ last.vote \notin Canonical) => RefusedBadInput

\* C16, amended: the round trip as stated; from_string compares the
\* lowercased string, so it yields the token whose canonical string is the
\* lowercase form of the string, and fails for every string whose lowercase
\* form is not the canonical string of one of the ten tokens; submit vote
\* with such a string returns BadInput, stores no vote and publishes no
\* event, and with any other string stores the canonical string.
C16_VoteRoundTrip ==
    /\ RoundTrip
    /\ last.op = "parsed" =>
          IF to_lowercase(last.value) \in Canonical
          THEN /\ last.parsed.ok
               /\ value(last.parsed.val) = Some(to_lowercase(last.value))
          ELSE ~last.parsed.ok
    /\ last.op = "vote" =>
          IF to_lowercase(last.vote) \in Canonical
          THEN last.res.ok /\ db.votes[1].vote = to_lowercase(last.vote)
          ELSE RefusedBadInput

\* The string "HIDDEN" has been submitted after the round trip of the token
\* drawn with it, and was refused.
C16_Witness ==
    /\ last.op = "vote"
    /\ last.vote = "HIDDEN"
    /\ RefusedBadInput
    /\ DOMAIN db.votes = {}

\* ------------------------------------------------------------------------
\* Isolation of rooms and the Revealed state (specification Spec).
\* ------------------------------------------------------------------------
\* C28: a leave or submit vote request whose path names room R leaves the
\* users, votes, owner_id and state of every other room as they were.
C28_RoomIsolation ==
    (Answered /\ last.op \in {"leave", "vote"})
    => \A other \in ((DOMAIN last.pre.db.rooms) \cup (DOMAIN db.rooms)) \ {last.room_id} :
           db_get_room(db, other) = db_get_room(last.pre.db, other)

\* C29: while a room is in state Revealed its stored votes are frozen: a
\* submit vote request that finds the room Revealed adds and changes no vote
\* of the room.
C29_RevealedVotesFrozen ==
    (/\ Answered
     /\ last.op = "vote"
     /\ PreRoom # None
     /\ unwrap(PreRoom).state = "Revealed")
    => unwrap(NowRoom).votes = unwrap(PreRoom).votes

\* ------------------------------------------------------------------------
\* Referential consistency of the three tables (specification Spec).
\* ------------------------------------------------------------------------
\* The foreign keys of create_schema hold in d.
RefConsistent(d) ==
    /\ \A u \in DOMAIN d.users : d.users[u].room_id \in DOMAIN d.rooms
    /\ \A u \in DOMAIN d.votes :
           /\ u \in DOMAIN d.users
           /\ d.votes[u].room_id \in DOMAIN d.rooms

\* What delete_room(room_id) does to d: it returns true exactly when d has
\* the room row, and leaves no row of the room, of its users or of its votes,
\* the rows of the other rooms being as they were.
DeleteRoomCascades(d, room_id) ==
    LET r == db_delete_room(d, room_id) IN
    /\ r.ok
    /\ r.val = (room_id \in DOMAIN d.rooms)
    /\ room_id \notin DOMAIN r.db.rooms
    /\ \A u \in DOMAIN r.db.users : r.db.users[u].room_id # room_id
    /\ \A u \in DOMAIN r.db.votes : r.db.votes[u].room_id # room_id
    /\ RefConsistent(r.db)
    /\ \A other \in (DOMAIN d.rooms) \ {room_id} :
           /\ other \in DOMAIN r.db.rooms
           /\ r.db.rooms[other] = d.rooms[other]
           /\ db_get_users_for_room(r.db, other) = db_get_users_for_room(d, other)

\* C26: after any sequence of requests every user row belongs to a room row
\* that exists and every vote row to a user row and a room row that exist,
\* and delete_room on any room id removes the room with all of its users and
\* votes, returning true exactly when the room row existed.
C26_ReferentialConsistency ==
    /\ RefConsistent(db)
    /\ \A room_id \in RoomIdArgs : DeleteRoomCascades(db, room_id)

\* The last user of a room has left and the room was deleted, and with it the
\* vote a user of another room had stored under it.
C26_Witness ==
    /\ Answered
    /\ last.op = "leave"
    /\ last.res.ok
    /\ last.room_id \in DOMAIN last.pre.db.rooms
    /\ last.room_id \notin DOMAIN db.rooms
    /\ \E u \in DOMAIN last.pre.db.votes :
           /\ u # last.user_id
           /\ last.pre.db.votes[u].room_id = last.room_id
           /\ u \in DOMAIN db.users
           /\ u \notin DOMAIN db.votes

\* ------------------------------------------------------------------------
\* Atomicity of the storage operations (specification Conc).
\* ------------------------------------------------------------------------
\* C21: reset deletes the votes and returns the state to Voting as one unit:
\* while a reset has deleted the votes of a Revealed room and has not yet
\* written the state, no submit vote or reveal request reads the room (the
\* get_room of add_vote and of reveal_votes) or stores a vote in it.
C21_ResetOneUnit ==
    [][\A r \in InFlight :
          (/\ r.pc = "reset_update_state"
           /\ ~Moves(r)
           /\ r.room_id \in DOMAIN db.rooms
           /\ db.rooms[r.room_id].state = "revealed")
          => ~\E q \in DOMAIN tasks' :
                 /\ q.room_id = r.room_id
                 /\ q.pc \in {"vote_upsert", "vote_notify", "reveal_update_state"}
                 /\ CopiesIn(q, tasks') > CopiesIn(q, tasks)]_vars

\* C22: Database::create_room persists the room row and its initial owner
\* atomically: when create room has returned an error, storage holds neither
\* a room row nor a user row for the room it was creating.
C22_CreateAtomic ==
    \A r \in Tasks :
        (r.op = "create" /\ r.pc = "done" /\ ~r.res.ok)
        => /\ r.room_id \notin DOMAIN db.rooms
           /\ db_get_users_for_room(db, r.room_id) = {}

\* ------------------------------------------------------------------------
\* Properties of the event fan-out (specifications Stream and StreamFair).
\* ------------------------------------------------------------------------
\* Both tasks of connection s have stopped and select! has returned.
Stopped(s) ==
    /\ s.send_task \notin {"recv", "send"}
    /\ s.recv_task # "next"
    /\ s.selected

C24_Teardown ==
    /\ [](\A s \in subs : s.selected => Stopped(s))
    /\ \A i \in ConnIds :
           (\E s \in subs : s.conn = i /\ (s.send_task = "ended" \/ s.recv_task = "ended"))
               ~> (\E s \in subs : s.conn = i /\ Stopped(s) /\ s \notin Receivers(s.chan))

\* The peer closed a connection whose send_task was waiting for an event:
\* recv_task ended and send_task was aborted.
C24_Witness ==
    \E s \in subs :
        /\ s.recv_task = "ended"
        /\ s.send_task = "aborted"
        /\ s.err = None
        /\ s.selected
        /\ ~Closed(s.chan)

\* C25: for every open connection, the events written to its socket are the
\* events sent on its room's channel since it subscribed, each once and in
\* the order sent, none left out while it has not lagged; they are events of
\* its room; and a handler that holds a sender can always send.
C25_FanOut ==
    /\ \A s \in subs :
           ~s.selected =>
               LET log == channels[s.chan].log
                   sending == IF s.msg = None THEN 0 ELSE 1
               IN /\ channels[s.chan].room = s.room
                  /\ \A k \in DOMAIN log : log[k].room_id = s.room
                  /\ s.start + Len(s.delivered) <= Len(log)
                  /\ s.delivered = SubSeq(log, s.start + 1, s.start + Len(s.delivered))
                  /\ s.send_task \in {"recv", "send"}
                         => s.next = s.start + Len(s.delivered) + sending
                  /\ s.msg # None => unwrap(s.msg) = log[s.next]
    /\ tasks # EmptyBag => ENABLED PublishSend

\* Two connections subscribed to the same channel have each been sent the
\* same two events, in the same order.
C25_Witness ==
    \E s1 \in subs, s2 \in subs :
        /\ s1.conn # s2.conn
        /\ s1.chan = s2.chan
        /\ ~s1.selected /\ ~s2.selected
        /\ Len(s1.delivered) = 2
        /\ s2.delivered = s1.delivered
        /\ s1.delivered[1] # s1.delivered[2]

\* C27: a subscriber that has fallen more than the backlog behind stays
\* subscribed: its send_task ends only when the channel is closed or a socket
\* send fails.
C27_LaggedStaysSubscribed ==
    \A s \in subs :
        s.send_task = "ended" => s.err \in {Some("Closed"), Some("SendError")}

====
